---- MODULE Spec2Model ----
(***************************************************************************)
(* Model of urql-wrapper (src/src/queryProviderFactory.ts):                *)
(*   - useAppQuery: classifies the state {data, fetching, error} reported  *)
(*     by the GraphQL client into paused / fetching / success / error and  *)
(*     applies the selector;                                               *)
(*   - useRetryableQuery: wraps useAppQuery with a retry counter kept in a *)
(*     ref, deferred retries scheduled from an effect, and a result        *)
(*     override.                                                           *)
(* The GraphQL client (urql's useQuery) and the rendering framework are    *)
(* external: they appear as the environment that changes {data, fetching,  *)
(* error}, re-renders the hook and runs its effect when its dependencies   *)
(* changed.  One action is one event of the event loop (mount, prop        *)
(* change, fetch completion, timer expiry, refetch call, unmount) together *)
(* with the re-render and the effect that the event causes.                *)
(***************************************************************************)
EXTENDS Integers, Sequences, FiniteSets, TLC

\* ------------------------------------------------------------------ bounds
MaxRetry == 2          \* maxRetryCount is drawn from 0..MaxRetry
MaxToggles == 2        \* changes of the caller's pause prop per instance
MaxUserRefetch == 1    \* refetch calls made by the consumer per instance
MaxConsumers == 2      \* components below one provider that call the consumer hook

\* ------------------------------------------------------------- data values
\* Raw data of the client: absent (undefined / null) or an object that
\* lacks or carries the sentinel field.
RawData == {"undefined", "null", "plain", "sentinel"}

\* error reported by the client: none, or a CombinedError
ClientErrors == {"none", "networkError", "graphQLError"}

Selectors == {"fields", "requireSentinel", "throwString"}

RetryIfs == {"untilSentinel", "always", "bailNoData", "never"}

\* ------------------------------------------------------------------ errors
NoError == [name |-> "none", message |-> "", cause |-> "none"]

ClientError(e) == [name |-> "CombinedError", message |-> e, cause |-> "none"]

SelectorError(cause) ==
    [name |-> "SelectorError",
     message |-> "[Query] Query selector threw an error. See cause for more details.",
     cause |-> cause]

NoDataError ==
    [name |-> "NoDataError", message |-> "[Query] Query returned no data.",
     cause |-> "none"]

PlainError(message) == [name |-> "Error", message |-> message, cause |-> "none"]

\* ----------------------------------------------------------------- results
NoCounts == 0 - 1

PausedResult ==
    [status |-> "paused", data |-> "undefined", error |-> NoError, counts |-> NoCounts]

FetchingResult ==
    [status |-> "fetching", data |-> "undefined", error |-> NoError, counts |-> NoCounts]

SuccessResult(data) ==
    [status |-> "success", data |-> data, error |-> NoError, counts |-> NoCounts]

ErrorResult(error) ==
    [status |-> "error", data |-> "undefined", error |-> error, counts |-> NoCounts]

RetryingResult(counts) ==
    [status |-> "retrying", data |-> "undefined", error |-> NoError, counts |-> counts]

NoResult ==
    [status |-> "none", data |-> "undefined", error |-> NoError, counts |-> NoCounts]

\* ---------------------------------------------------------------- selector
\* A selector returns a value or throws; what it throws is an Error
\* instance or some other value.
Returned(v) == [threw |-> FALSE, isError |-> FALSE, value |-> v]
ThrewError(e) == [threw |-> TRUE, isError |-> TRUE, value |-> e]
ThrewOther(x) == [threw |-> TRUE, isError |-> FALSE, value |-> x]

Selector(sel, data) ==
    CASE sel = "fields" ->
           IF data = "sentinel" THEN Returned("sentinelFields")
                                ELSE Returned("plainFields")
      [] sel = "requireSentinel" ->
           IF data = "sentinel" THEN Returned("sentinelFields")
                                ELSE ThrewError("missing sentinel")
      [] OTHER -> ThrewOther("a string")

\* -------------------------------------------------------------- useAppQuery
Falsy(data) == data \in {"undefined", "null"}

\* variant: the fetching test placed before the paused test
useAppQueryFetchingFirst(paused, data, fetching, error, sel) ==
    IF fetching THEN FetchingResult
    ELSE IF paused THEN PausedResult
    ELSE IF error # "none" THEN ErrorResult(ClientError(error))
    ELSE IF Falsy(data) THEN ErrorResult(NoDataError)
    ELSE LET r == Selector(sel, data) IN
         IF ~r.threw THEN SuccessResult(r.value)
         ELSE IF r.isError THEN ErrorResult(SelectorError(r.value))
         ELSE ErrorResult(SelectorError("undefined"))

\* variant: present data reported as success before the fetching test
useAppQueryDataFirst(paused, data, fetching, error, sel) ==
    IF paused THEN PausedResult
    ELSE IF ~Falsy(data) /\ error = "none" THEN
         LET r == Selector(sel, data) IN
         IF ~r.threw THEN SuccessResult(r.value)
         ELSE IF r.isError THEN ErrorResult(SelectorError(r.value))
         ELSE ErrorResult(SelectorError("undefined"))
    ELSE IF fetching THEN FetchingResult
    ELSE IF error # "none" THEN ErrorResult(ClientError(error))
    ELSE ErrorResult(NoDataError)

\* variant: success carrying the raw data instead of the selector's value
useAppQueryRawData(paused, data, fetching, error, sel) ==
    IF paused THEN PausedResult
    ELSE IF fetching THEN FetchingResult
    ELSE IF error # "none" THEN ErrorResult(ClientError(error))
    ELSE IF Falsy(data) THEN ErrorResult(NoDataError)
    ELSE LET r == Selector(sel, data) IN
         IF ~r.threw THEN SuccessResult(data)
         ELSE IF r.isError THEN ErrorResult(SelectorError(r.value))
         ELSE ErrorResult(SelectorError("undefined"))

\* variant: no try / catch around the selector, its exception leaves the hook
useAppQueryNoCatch(paused, data, fetching, error, sel) ==
    IF paused THEN PausedResult
    ELSE IF fetching THEN FetchingResult
    ELSE IF error # "none" THEN ErrorResult(ClientError(error))
    ELSE IF Falsy(data) THEN ErrorResult(NoDataError)
    ELSE LET r == Selector(sel, data) IN
         IF ~r.threw THEN SuccessResult(r.value)
         ELSE [status |-> "thrown", data |-> "undefined", error |-> NoError,
               counts |-> NoCounts]

\* variant: the selector applied before the test for absent data
useAppQuerySelectorFirst(paused, data, fetching, error, sel) ==
    IF paused THEN PausedResult
    ELSE IF fetching THEN FetchingResult
    ELSE IF error # "none" THEN ErrorResult(ClientError(error))
    ELSE LET r == Selector(sel, data) IN
         IF r.threw THEN
            (IF r.isError THEN ErrorResult(SelectorError(r.value))
             ELSE ErrorResult(SelectorError("undefined")))
         ELSE IF Falsy(data) THEN ErrorResult(NoDataError)
         ELSE SuccessResult(r.value)

\* variant: the test for data placed before the test for the client's error
useAppQueryDataBeforeError(paused, data, fetching, error, sel) ==
    IF paused THEN PausedResult
    ELSE IF fetching THEN FetchingResult
    ELSE IF ~Falsy(data) THEN
         LET r == Selector(sel, data) IN
         IF ~r.threw THEN SuccessResult(r.value)
         ELSE IF r.isError THEN ErrorResult(SelectorError(r.value))
         ELSE ErrorResult(SelectorError("undefined"))
    ELSE IF error # "none" THEN ErrorResult(ClientError(error))
    ELSE ErrorResult(NoDataError)

\* the result field of useAppQuery's return value (__rawValue is data)
useAppQuery(paused, data, fetching, error, sel) ==
    IF paused THEN PausedResult
    ELSE IF fetching THEN FetchingResult
    ELSE IF error # "none" THEN ErrorResult(ClientError(error))
    ELSE IF Falsy(data) THEN ErrorResult(NoDataError)
    ELSE LET r == Selector(sel, data) IN
         IF ~r.threw THEN SuccessResult(r.value)
         ELSE IF r.isError THEN ErrorResult(SelectorError(r.value))
         ELSE ErrorResult(SelectorError("undefined"))

\* ------------------------------------------------------------------- state
VARIABLES
    phase,          \* "init" (not yet rendered), "mounted", "unmounted"
    maxRetryCount,  \* input.maxRetryCount
    retryIf,        \* input.retryIf, one of RetryIfs
    selector,       \* input.selector, one of Selectors
    sentinelAfter,  \* the server's responses carry the sentinel once this
                    \* many forced refetches were issued
    pause,          \* the caller's pause / paused prop
    retryCounts,    \* retryCounts.current
    timers,         \* pending wait(delay).then(...) callbacks
    deps,           \* the effect's dependencies at the previous render
    client,         \* the client's {data, fetching, error}; inflight: an
                    \* operation is subscribed and will deliver a result
    cPaused,        \* the pause argument the client saw at the last render
    appResult,      \* result of useAppQuery at the last render
    result,         \* result of useRetryableQuery at the last render
    refetchCalls,   \* calls of query.refetch() made by retry timers
    scheduled,      \* retry timers scheduled so far
    fetchStarted,   \* operations the client started for the hook: by a
                    \* render without pause or by a retry's refetch
    toggles,        \* changes of the pause prop so far
    userRefetches,  \* refetch calls made by the consumer so far
    consumers,      \* per consumer of a provider: is it mounted, and the
                    \* result it read from the context at its last render
    executions      \* hook instances (underlying query executions) created
                    \* for a provider and its consumers

vars == <<phase, maxRetryCount, retryIf, selector, sentinelAfter, pause,
          retryCounts, timers, deps, client, cPaused, appResult, result,
          refetchCalls, scheduled, fetchStarted, toggles, userRefetches,
          consumers, executions>>

provVars == <<consumers, executions>>

Consumers == 1..MaxConsumers

NoConsumer == [mounted |-> FALSE, seen |-> NoResult]

retryVars == <<maxRetryCount, retryIf, sentinelAfter, retryCounts, timers,
               deps, result, refetchCalls, scheduled, toggles, userRefetches>>

IdleClient ==
    [data |-> "undefined", fetching |-> FALSE, error |-> "none", inflight |-> FALSE]

\* ------------------------------------------------------ the client (urql)
\* What the client does with the pause argument of a render: a pause that
\* was not there before tears the operation down, a pause that went away
\* starts one; otherwise the operation (also one started by refetch while
\* paused) is left alone.
ClientOnRender(shouldPause, c) ==
    IF shouldPause /\ ~cPaused THEN [c EXCEPT !.fetching = FALSE, !.inflight = FALSE]
    ELSE IF ~shouldPause /\ cPaused THEN [c EXCEPT !.fetching = TRUE, !.inflight = TRUE]
    ELSE c

\* _refetch({requestPolicy: 'network-only'}): a new operation replaces the
\* current one; data and error of the previous result stay until it settles
ExecuteQuery(c) == [c EXCEPT !.fetching = TRUE, !.inflight = TRUE]

\* the response of the server to the operation in flight
Response(outcome) ==
    IF outcome = "error"
      THEN [data |-> "undefined", fetching |-> FALSE, error |-> "networkError",
            inflight |-> FALSE]
      ELSE [data |-> IF refetchCalls >= sentinelAfter THEN "sentinel" ELSE "plain",
            fetching |-> FALSE, error |-> "none", inflight |-> FALSE]

\* --------------------------------------------------------- useRetryableQuery
RetryIf(kind, data) ==
    CASE kind = "untilSentinel" -> IF data = "sentinel" THEN "false" ELSE "true"
      [] kind = "always" -> "true"
      [] kind = "bailNoData" ->
           IF Falsy(data) THEN "bail"
           ELSE IF data = "sentinel" THEN "false" ELSE "true"
      [] OTHER -> "false"

\* variant: the exhausted budget does not pause the query
shouldPauseCallerOnly(p, n) == p

shouldPause(p, n) == p \/ n >= maxRetryCount

\* the body of the effect: does it schedule a retry?
\* variant: the effect treats 'bail' like true
EffectRetryOnBail(shouldRetry, status, n) ==
    /\ shouldRetry # "false"
    /\ status = "fetching"
    /\ n < maxRetryCount

Effect(shouldRetry, status, n) ==
    /\ shouldRetry = "true"
    /\ status = "fetching"
    /\ n < maxRetryCount

\* the value returned by the hook
\* variant: the bail case placed before the max-retry check
OverrideBailFirst(n, shouldRetry, query) ==
    IF shouldRetry = "bail" THEN ErrorResult(PlainError("Bailed"))
    ELSE IF n >= maxRetryCount THEN ErrorResult(PlainError("Max retry count exceeded"))
    ELSE IF shouldRetry = "true" THEN RetryingResult(n)
    ELSE query

Override(n, shouldRetry, query) ==
    IF n >= maxRetryCount THEN ErrorResult(PlainError("Max retry count exceeded"))
    ELSE IF shouldRetry = "bail" THEN ErrorResult(PlainError("Bailed"))
    ELSE IF shouldRetry = "true" THEN RetryingResult(n)
    ELSE query

\* One render of useRetryableQuery followed by its effect, with counter n,
\* pause prop p, the client in state c, tm timers pending; retried says
\* that the event is a retry that called refetch.
Render(n, p, c, tm, retried) ==
    LET sp == shouldPause(p, n)
        c2 == ClientOnRender(sp, c)
        query == useAppQuery(sp, c2.data, c2.fetching, c2.error, selector)
        shouldRetry == RetryIf(retryIf, c2.data)
        newDeps == <<shouldRetry, query.status>>
        schedule == newDeps # deps /\ Effect(shouldRetry, query.status, n)
        started == c2.inflight /\ (retried \/ (~sp /\ cPaused))
    IN  /\ client' = c2
        /\ cPaused' = sp
        /\ appResult' = query
        /\ deps' = newDeps
        /\ timers' = tm + (IF schedule THEN 1 ELSE 0)
        /\ scheduled' = scheduled + (IF schedule THEN 1 ELSE 0)
        /\ fetchStarted' = fetchStarted + (IF started THEN 1 ELSE 0)
        /\ result' = Override(n, shouldRetry, query)

Init ==
    /\ phase = "init"
    /\ maxRetryCount \in 0..MaxRetry
    /\ retryIf \in RetryIfs
    /\ selector \in {"fields", "requireSentinel"}
    /\ sentinelAfter \in 0..(MaxRetry + 1)
    /\ pause \in BOOLEAN
    /\ retryCounts = 0
    /\ timers = 0
    /\ deps = <<>>
    /\ client = IdleClient
    /\ cPaused = TRUE
    /\ appResult = NoResult
    /\ result = NoResult
    /\ refetchCalls = 0
    /\ scheduled = 0
    /\ fetchStarted = 0
    /\ toggles = 0
    /\ userRefetches = 0
    /\ consumers = [i \in Consumers |-> NoConsumer]
    /\ executions = 0

\* first render of the instance and its effect
Mount ==
    /\ phase = "init"
    /\ phase' = "mounted"
    /\ Render(retryCounts, pause, client, timers, FALSE)
    /\ UNCHANGED <<maxRetryCount, retryIf, selector, sentinelAfter, pause,
                   retryCounts, refetchCalls, toggles, userRefetches>>
    /\ UNCHANGED provVars

\* the caller re-renders with the pause prop changed
SetPause ==
    /\ phase = "mounted"
    /\ toggles < MaxToggles
    /\ pause' = ~pause
    /\ toggles' = toggles + 1
    /\ Render(retryCounts, ~pause, client, timers, FALSE)
    /\ UNCHANGED <<phase, maxRetryCount, retryIf, selector, sentinelAfter,
                   retryCounts, refetchCalls, userRefetches>>
    /\ UNCHANGED provVars

\* the operation in flight settles and the hook re-renders
FetchComplete ==
    /\ phase = "mounted"
    /\ client.inflight
    /\ \E outcome \in {"data", "error"} :
          Render(retryCounts, pause, Response(outcome), timers, FALSE)
    /\ UNCHANGED <<phase, maxRetryCount, retryIf, selector, sentinelAfter, pause,
                   retryCounts, refetchCalls, toggles, userRefetches>>
    /\ UNCHANGED provVars

\* the consumer calls the refetch action the hook returned
UserRefetch ==
    /\ phase = "mounted"
    /\ userRefetches < MaxUserRefetch
    /\ userRefetches' = userRefetches + 1
    /\ Render(retryCounts, pause, ExecuteQuery(client), timers, FALSE)
    /\ UNCHANGED <<phase, maxRetryCount, retryIf, selector, sentinelAfter, pause,
                   retryCounts, refetchCalls, toggles>>
    /\ UNCHANGED provVars

\* variant: the callback without the re-check of the budget
TimerFireNoRecheck ==
    /\ timers > 0
    /\ retryCounts' = retryCounts + 1
    /\ refetchCalls' = refetchCalls + 1
    /\ IF phase = "mounted"
         THEN Render(retryCounts + 1, pause, ExecuteQuery(client), timers - 1, TRUE)
         ELSE /\ timers' = timers - 1
              /\ UNCHANGED <<deps, client, cPaused, appResult, result,
                             scheduled, fetchStarted>>
    /\ UNCHANGED <<phase, maxRetryCount, retryIf, selector, sentinelAfter, pause,
                   toggles, userRefetches>>
    /\ UNCHANGED provVars

\* the callback of wait(delay).then(...): the delay of a pending retry elapsed
TimerFire ==
    /\ timers > 0
    /\ IF retryCounts >= maxRetryCount
         THEN /\ timers' = timers - 1
              /\ UNCHANGED <<retryCounts, refetchCalls, deps, client, cPaused,
                             appResult, result, scheduled, fetchStarted>>
         ELSE /\ retryCounts' = retryCounts + 1
              /\ refetchCalls' = refetchCalls + 1
              /\ IF phase = "mounted"
                   THEN Render(retryCounts + 1, pause, ExecuteQuery(client),
                               timers - 1, TRUE)
                   ELSE /\ timers' = timers - 1
                        /\ UNCHANGED <<deps, client, cPaused, appResult, result,
                                       scheduled, fetchStarted>>
    /\ UNCHANGED <<phase, maxRetryCount, retryIf, selector, sentinelAfter, pause,
                   toggles, userRefetches>>
    /\ UNCHANGED provVars

\* the instance is torn down: the client's operation is unsubscribed; the
\* effect returns no cleanup, so pending timers stay pending
Unmount ==
    /\ phase = "mounted"
    /\ phase' = "unmounted"
    /\ client' = [client EXCEPT !.inflight = FALSE]
    /\ UNCHANGED <<maxRetryCount, retryIf, selector, sentinelAfter, pause,
                   retryCounts, timers, deps, cPaused, appResult, result,
                   refetchCalls, scheduled, fetchStarted, toggles, userRefetches>>
    /\ UNCHANGED provVars

Next ==
    \/ Mount
    \/ SetPause
    \/ FetchComplete
    \/ UserRefetch
    \/ TimerFire
    \/ Unmount

Spec == Init /\ [][Next]_vars

\* ------------------------------------------- a component using useAppQuery
\* The client is external: its state may be any combination of data,
\* fetching and error.
InitApp ==
    /\ phase = "init"
    /\ selector \in Selectors
    /\ pause \in BOOLEAN
    /\ client = IdleClient
    /\ cPaused = TRUE
    /\ appResult = NoResult
    /\ maxRetryCount = 0
    /\ retryIf = "never"
    /\ sentinelAfter = 0
    /\ retryCounts = 0
    /\ timers = 0
    /\ deps = <<>>
    /\ result = NoResult
    /\ refetchCalls = 0
    /\ scheduled = 0
    /\ fetchStarted = 0
    /\ toggles = 0
    /\ userRefetches = 0
    /\ consumers = [i \in Consumers |-> NoConsumer]
    /\ executions = 0

\* one render of a component that calls useAppQuery with paused = p
AppRender(p, c) ==
    /\ client' = c
    /\ cPaused' = p
    /\ appResult' = useAppQuery(p, c.data, c.fetching, c.error, selector)

AppMount ==
    /\ phase = "init"
    /\ phase' = "mounted"
    /\ AppRender(pause, ClientOnRender(pause, client))
    /\ UNCHANGED <<selector, pause, fetchStarted>>
    /\ UNCHANGED retryVars
    /\ UNCHANGED provVars

\* the client reports a new state and the component re-renders
AppClientUpdate ==
    /\ phase = "mounted"
    /\ \E d \in RawData, f \in BOOLEAN, e \in ClientErrors :
          AppRender(pause, [data |-> d, fetching |-> f, error |-> e, inflight |-> f])
    /\ UNCHANGED <<phase, selector, pause, fetchStarted>>
    /\ UNCHANGED retryVars
    /\ UNCHANGED provVars

AppSetPaused ==
    /\ phase = "mounted"
    /\ pause' = ~pause
    /\ AppRender(~pause, ClientOnRender(~pause, client))
    /\ UNCHANGED <<phase, selector, fetchStarted>>
    /\ UNCHANGED retryVars
    /\ UNCHANGED provVars

\* refetch of useAppQuery's return value
AppRefetch ==
    /\ phase = "mounted"
    /\ AppRender(pause, ExecuteQuery(client))
    /\ UNCHANGED <<phase, selector, pause, fetchStarted>>
    /\ UNCHANGED retryVars
    /\ UNCHANGED provVars

AppUnmount ==
    /\ phase = "mounted"
    /\ phase' = "unmounted"
    /\ client' = [client EXCEPT !.inflight = FALSE]
    /\ UNCHANGED <<selector, pause, cPaused, appResult, fetchStarted>>
    /\ UNCHANGED retryVars
    /\ UNCHANGED provVars

NextApp ==
    \/ AppMount
    \/ AppClientUpdate
    \/ AppSetPaused
    \/ AppRefetch
    \/ AppUnmount

SpecApp == InitApp /\ [][NextApp]_vars


\* ----------------------------------------------------- queryProviderFactory
\* The hook that the factory hands to constate: the classifier applied to
\* the factory's query and selector and to the provider's variables and
\* paused prop.
useQuery(paused, data, fetching, error, sel) ==
    useAppQuery(paused, data, fetching, error, sel)

\* every mounted consumer re-renders with the value the provider put into
\* the context
Propagate(value) ==
    consumers' = [i \in Consumers |->
                    IF consumers[i].mounted
                      THEN [mounted |-> TRUE, seen |-> value]
                      ELSE consumers[i]]

\* one render of the provider: it calls the hook and provides its value
ProviderRender(p, c) ==
    /\ client' = c
    /\ cPaused' = p
    /\ appResult' = useQuery(p, c.data, c.fetching, c.error, selector)
    /\ Propagate(useQuery(p, c.data, c.fetching, c.error, selector))

ProviderMount ==
    /\ phase = "init"
    /\ phase' = "mounted"
    /\ executions' = executions + 1
    /\ ProviderRender(pause, ClientOnRender(pause, client))
    /\ UNCHANGED <<selector, pause, fetchStarted>>
    /\ UNCHANGED retryVars

\* variant: the consumer hook runs the query hook itself instead of reading
\* the provider's value
ConsumerMountOwnQuery ==
    /\ phase = "mounted"
    /\ \E i \in Consumers :
          /\ ~consumers[i].mounted
          /\ consumers' = [consumers EXCEPT ![i] =
                 [mounted |-> TRUE,
                  seen |-> useQuery(pause, "undefined", ~pause, "none", selector)]]
    /\ executions' = executions + 1
    /\ UNCHANGED <<phase, selector, pause, client, cPaused, appResult, fetchStarted>>
    /\ UNCHANGED retryVars

\* a component below the provider mounts and calls the consumer hook: it
\* reads the provider's value from the context
ConsumerMount ==
    /\ phase = "mounted"
    /\ \E i \in Consumers :
          /\ ~consumers[i].mounted
          /\ consumers' = [consumers EXCEPT ![i] =
                 [mounted |-> TRUE, seen |-> appResult]]
    /\ UNCHANGED <<phase, selector, pause, client, cPaused, appResult,
                   fetchStarted, executions>>
    /\ UNCHANGED retryVars

ConsumerUnmount ==
    /\ phase = "mounted"
    /\ \E i \in Consumers :
          /\ consumers[i].mounted
          /\ consumers' = [consumers EXCEPT ![i] = NoConsumer]
    /\ UNCHANGED <<phase, selector, pause, client, cPaused, appResult,
                   fetchStarted, executions>>
    /\ UNCHANGED retryVars

\* the client reports a new state to the provider's hook
ProviderClientUpdate ==
    /\ phase = "mounted"
    /\ \E d \in RawData, f \in BOOLEAN, e \in ClientErrors :
          ProviderRender(pause, [data |-> d, fetching |-> f, error |-> e,
                                 inflight |-> f])
    /\ UNCHANGED <<phase, selector, pause, fetchStarted, executions>>
    /\ UNCHANGED retryVars

\* the provider is re-rendered with its paused prop changed
ProviderSetPaused ==
    /\ phase = "mounted"
    /\ pause' = ~pause
    /\ ProviderRender(~pause, ClientOnRender(~pause, client))
    /\ UNCHANGED <<phase, selector, fetchStarted, executions>>
    /\ UNCHANGED retryVars

\* a consumer calls the refetch action of the value it read
ConsumerRefetch ==
    /\ phase = "mounted"
    /\ userRefetches < MaxUserRefetch
    /\ \E i \in Consumers : consumers[i].mounted
    /\ userRefetches' = userRefetches + 1
    /\ ProviderRender(pause, ExecuteQuery(client))
    /\ UNCHANGED <<phase, selector, pause, fetchStarted, executions,
                   maxRetryCount, retryIf, sentinelAfter, retryCounts, timers,
                   deps, result, refetchCalls, scheduled, toggles>>

\* the provider is unmounted, and its descendants with it
ProviderUnmount ==
    /\ phase = "mounted"
    /\ phase' = "unmounted"
    /\ client' = [client EXCEPT !.inflight = FALSE]
    /\ consumers' = [i \in Consumers |-> NoConsumer]
    /\ UNCHANGED <<selector, pause, cPaused, appResult, fetchStarted, executions>>
    /\ UNCHANGED retryVars

NextProvider ==
    \/ ProviderMount
    \/ ConsumerMount
    \/ ConsumerUnmount
    \/ ProviderClientUpdate
    \/ ProviderSetPaused
    \/ ConsumerRefetch
    \/ ProviderUnmount

SpecProvider == InitApp /\ [][NextProvider]_vars

\* ------------------------------------------------------------------ claims
MaxRetryExceeded == ErrorResult(PlainError("Max retry count exceeded"))

Bailed == ErrorResult(PlainError("Bailed"))

\* no wrapper-issued refetch is outstanding: no timer pending, nothing in flight
Settled == timers = 0 /\ ~client.inflight

\* C1: with maxRetryCount = 2, a retryIf that is true until the sentinel is
\* in the raw data, and a server that answers with the sentinel from the 2nd
\* forced refetch on, the final result of the mounted wrapper (both retries
\* issued, nothing pending, caller not pausing) is 'success'.
C1_FinalResultSuccess ==
    ( /\ maxRetryCount = 2 /\ retryIf = "untilSentinel" /\ sentinelAfter = 2
      /\ phase = "mounted" /\ ~pause
      /\ refetchCalls = 2 /\ Settled )
    => result.status = "success"

\* the retryIf never returns false for the data this server delivers
NeverSatisfied ==
    \/ retryIf = "always"
    \/ retryIf = "untilSentinel" /\ sentinelAfter > maxRetryCount

\* C2: with maxRetryCount = 1 and data that never makes retryIf false, the
\* wrapper issues at most one refetch, and the mounted wrapper's result is
\* the 'Max retry count exceeded' error exactly from that one retry on.
C2_MaxRetryAfterOneRetry ==
    (maxRetryCount = 1 /\ NeverSatisfied)
    => /\ refetchCalls <= 1
       /\ phase = "mounted" => (refetchCalls = 1 <=> result = MaxRetryExceeded)

\* C2's case: one retry was issued, a second pending timer has fired since
\* without a refetch, and the result is the max-retry error
W_C2 ==
    /\ maxRetryCount = 1 /\ NeverSatisfied /\ phase = "mounted"
    /\ refetchCalls = 1 /\ scheduled = 2 /\ timers = 0
    /\ result = MaxRetryExceeded

\* C3: once the instance is unmounted, no pending timer increments the
\* attempt counter or invokes refetch.
C3_NoRetryAfterUnmount ==
    [][phase = "unmounted" =>
         (retryCounts' = retryCounts /\ refetchCalls' = refetchCalls)]_vars

\* C4: the attempt counter stays within 0..maxRetryCount in every reachable
\* state and only ever changes by +1.
C4_CounterBounded ==
    /\ [](retryCounts >= 0 /\ retryCounts <= maxRetryCount)
    /\ [][retryCounts' = retryCounts + 1]_retryCounts

\* C4's case: timers were pending together and one is still pending when
\* the budget is exhausted
W_C4 ==
    /\ maxRetryCount >= 1 /\ retryCounts = maxRetryCount
    /\ scheduled > maxRetryCount /\ timers >= 1

\* C5 as stated: when retryIf returns 'bail' on the first observation, the
\* first render yields the 'Bailed' error with no retry scheduled and the
\* counter at 0.
C5_BailImmediately ==
    [][(phase = "init" /\ RetryIf(retryIf, "undefined") = "bail") =>
         (result' = Bailed /\ scheduled' = 0 /\ timers' = 0 /\ retryCounts' = 0)]_vars

\* C5 amended: when retryIf returns 'bail' on the first observation, the
\* first render yields the 'Bailed' error if maxRetryCount >= 1 and the
\* 'Max retry count exceeded' error if maxRetryCount = 0; in both cases no
\* retry is scheduled and the counter stays 0.
C5_BailImmediatelyAmended ==
    [][(phase = "init" /\ RetryIf(retryIf, "undefined") = "bail") =>
         /\ maxRetryCount >= 1 => result' = Bailed
         /\ maxRetryCount = 0 => result' = MaxRetryExceeded
         /\ scheduled' = 0 /\ timers' = 0 /\ retryCounts' = 0]_vars

\* C5's case: the first observation (the first fetch is running, no data
\* yet) of a retryIf that bails on it
W_C5 ==
    /\ phase = "mounted" /\ RetryIf(retryIf, "undefined") = "bail"
    /\ maxRetryCount >= 1 /\ client.fetching /\ client.data = "undefined"
    /\ toggles = 0 /\ userRefetches = 0 /\ result = Bailed

\* C6: the result of each render follows the priority order max retry
\* exceeded, bailed, retrying with the current counter, classifier's result.
C6_OverridePriority ==
    phase = "mounted" =>
      /\ retryCounts >= maxRetryCount => result = MaxRetryExceeded
      /\ (retryCounts < maxRetryCount /\ RetryIf(retryIf, client.data) = "bail")
           => result = Bailed
      /\ (retryCounts < maxRetryCount /\ RetryIf(retryIf, client.data) = "true")
           => (result.status = "retrying" /\ result.counts = retryCounts)
      /\ (retryCounts < maxRetryCount /\ RetryIf(retryIf, client.data) = "false")
           => (result = appResult /\ result.status \in {"paused", "fetching", "success", "error"})

\* C6's case: the budget is exhausted by retries while retryIf says bail
W_C6 ==
    /\ phase = "mounted" /\ maxRetryCount >= 1 /\ retryCounts >= maxRetryCount
    /\ RetryIf(retryIf, client.data) = "bail" /\ result = MaxRetryExceeded

C8_PausedWins ==
    (phase = "mounted" /\ pause) => appResult = PausedResult

\* C8's case: paused while the client reports fetching, data and an error
W_C8 ==
    /\ phase = "mounted" /\ pause /\ client.fetching
    /\ client.data = "sentinel" /\ client.error # "none"
    /\ appResult.status = "paused"

\* C9: useAppQuery, not paused, with the client fetching returns 'fetching',
\* with or without data or an error present.
C9_FetchingWins ==
    (phase = "mounted" /\ ~pause /\ client.fetching) => appResult = FetchingResult

\* C9's case: fetching with stale data present
W_C9 ==
    /\ phase = "mounted" /\ ~pause /\ client.fetching
    /\ client.data = "plain" /\ client.error = "none" /\ selector = "fields"
    /\ appResult.status = "fetching"

\* C10: useAppQuery, not paused, not fetching, no error, data present and a
\* selector that returns v: the result is 'success' with data v.
C10_SuccessCarriesSelected ==
    ( /\ phase = "mounted" /\ ~pause /\ ~client.fetching
      /\ client.error = "none" /\ ~Falsy(client.data)
      /\ ~Selector(selector, client.data).threw )
    => /\ appResult.status = "success"
       /\ appResult.data = Selector(selector, client.data).value
       /\ appResult.error = NoError

\* C10's case: the selector maps the data to a value different from it
W_C10 ==
    /\ phase = "mounted" /\ ~pause /\ ~client.fetching /\ client.error = "none"
    /\ client.data = "plain" /\ selector = "fields"
    /\ appResult = SuccessResult("plainFields")

ResultStatuses == {"paused", "fetching", "success", "error"}

\* C11: when the selector raises on present data, useAppQuery still returns
\* a result: status 'error' with a SelectorError, whose cause is the raised
\* Error e.
C11_SelectorErrorReturned ==
    ( /\ phase = "mounted" /\ ~pause /\ ~client.fetching
      /\ client.error = "none" /\ ~Falsy(client.data)
      /\ Selector(selector, client.data).threw )
    => /\ appResult.status = "error"
       /\ appResult.error.name = "SelectorError"
       /\ Selector(selector, client.data).isError
            => appResult.error.cause = Selector(selector, client.data).value

\* C11's case: the selector threw an Error on data without the sentinel
W_C11 ==
    /\ phase = "mounted" /\ ~pause /\ ~client.fetching /\ client.error = "none"
    /\ client.data = "plain" /\ selector = "requireSentinel"
    /\ appResult = ErrorResult(SelectorError("missing sentinel"))

\* C12: not paused, not fetching, no client error and no data: the result
\* is the NoDataError error whatever the selector is, also for a selector
\* that would throw or return a value on absent data (it is not invoked).
C12_NoDataError ==
    ( /\ phase = "mounted" /\ ~pause /\ ~client.fetching
      /\ client.error = "none" /\ Falsy(client.data) )
    => appResult = ErrorResult(NoDataError)

\* C12's case: data is absent and the selector throws on whatever it gets
W_C12 ==
    /\ phase = "mounted" /\ ~pause /\ ~client.fetching /\ client.error = "none"
    /\ client.data = "null" /\ selector = "throwString"
    /\ appResult.error.name = "NoDataError"

\* C13: the classification is first-match-wins in the order paused,
\* fetching, client error, no data, selector; a client error wins over
\* present data, and the result carries exactly one of the four tags.
C13_FirstMatchWins ==
    phase = "mounted" =>
      /\ appResult.status \in ResultStatuses
      /\ appResult.status = "paused" <=> pause
      /\ appResult.status = "fetching" <=> (~pause /\ client.fetching)
      /\ (~pause /\ ~client.fetching /\ client.error # "none")
           => appResult = ErrorResult(ClientError(client.error))
      /\ appResult.status = "success"
           => (client.error = "none" /\ ~Falsy(client.data) /\ appResult.error = NoError)
      /\ appResult.status = "error" => appResult.data = "undefined"

\* C13's case: the client reports an error together with data
W_C13 ==
    /\ phase = "mounted" /\ ~pause /\ ~client.fetching
    /\ client.error = "graphQLError" /\ client.data = "sentinel"
    /\ appResult.status = "error" /\ appResult.error.name = "CombinedError"

\* C15: at most one deferred retry is pending at any time for one instance.
C15_OnePendingRetry == timers <= 1

\* timers that fired without incrementing the counter
NoOpFirings == scheduled - timers - refetchCalls

\* C16: a deferred retry that fires when the counter has reached
\* maxRetryCount changes nothing but the set of pending timers: the counter
\* is unchanged, refetch is not invoked, nothing is re-rendered.
C16_ExhaustedFiringIsNoOp ==
    [][(timers' < timers /\ retryCounts >= maxRetryCount) =>
         /\ retryCounts' = retryCounts /\ refetchCalls' = refetchCalls
         /\ client' = client /\ result' = result /\ appResult' = appResult
         /\ fetchStarted' = fetchStarted /\ scheduled' = scheduled
         /\ timers' = timers - 1]_vars

\* C16's case: the budget was exhausted by one timer and another timer of
\* the mounted instance has fired since
W_C16 ==
    /\ phase = "mounted" /\ maxRetryCount >= 1 /\ retryCounts = maxRetryCount
    /\ NoOpFirings >= 1

Terminal(status) == status \in {"success", "error"}

\* C17 as stated: neither the classifier's result nor the wrapper's result
\* changes from one terminal status directly to the other.
C17_NoTerminalJump ==
    [][/\ (Terminal(appResult.status) /\ Terminal(appResult'.status))
            => appResult'.status = appResult.status
       /\ (Terminal(result.status) /\ Terminal(result'.status))
            => result'.status = result.status]_vars

\* C17 amended: the classifier's result never changes from one terminal
\* status directly to the other (the wrapper's result can).
C17_ClassifierNoTerminalJump ==
    [][(Terminal(appResult.status) /\ Terminal(appResult'.status))
         => appResult'.status = appResult.status]_vars

\* C17's case: the classifier is back at a terminal status after a forced
\* refetch replaced an earlier settled result
W_C17 ==
    /\ phase = "mounted" /\ refetchCalls >= 1 /\ fetchStarted >= 2
    /\ ~client.fetching /\ client.error # "none" /\ appResult.status = "error"

\* C18: a mounted, never paused instance whose retryIf is always true does
\* not rest in status 'retrying' with nothing left that would move it on:
\* a retry is pending or an operation is in flight.
C18_RetryingMovesOn ==
    ( /\ phase = "mounted" /\ retryIf = "always"
      /\ ~pause /\ toggles = 0 /\ userRefetches = 0
      /\ result.status = "retrying" )
    => (timers > 0 \/ client.inflight)

\* C19: once retryIf returns false for the current raw data and the wrapper
\* passes 'success' through, the wrapper does not increment the counter or
\* invoke refetch.
C19_NoRetryAfterSuccess ==
    [][( /\ phase = "mounted" /\ result.status = "success"
         /\ RetryIf(retryIf, client.data) = "false" )
       => (retryCounts' = retryCounts /\ refetchCalls' = refetchCalls)]_vars

\* C20: while the caller's pause flag is true, the wrapper schedules no
\* retry, invokes no forced refetch and does not increment the counter.
C20_NoRetryWhilePaused ==
    [][(phase = "mounted" /\ pause /\ pause') =>
         /\ scheduled' = scheduled
         /\ refetchCalls' = refetchCalls
         /\ retryCounts' = retryCounts]_vars

\* C14: for one mounted provider there is exactly one underlying query
\* execution however many consumers are mounted, every mounted consumer
\* holds the provider's current result, and a refetch called by any
\* consumer changes the result of all consumers (to 'fetching', or
\* 'paused' while the provider is paused).
C14_OneExecutionSharedResult ==
    /\ [](phase = "mounted" =>
            /\ executions = 1
            /\ \A i \in Consumers :
                  consumers[i].mounted => consumers[i].seen = appResult)
    /\ [][userRefetches' > userRefetches =>
            \A i \in Consumers :
               consumers[i].mounted =>
                  /\ consumers'[i].mounted
                  /\ consumers'[i].seen =
                        (IF pause THEN PausedResult ELSE FetchingResult)]_vars

\* C14's case: two consumers see the 'fetching' that the refetch of one of
\* them caused
W_C14 ==
    /\ phase = "mounted" /\ userRefetches = 1 /\ ~pause
    /\ client.data = "plain" /\ client.error = "none"
    /\ \A i \in Consumers :
          consumers[i].mounted /\ consumers[i].seen = FetchingResult

====
